---- MODULE Spec2Model ----
(***************************************************************************)
(* The calculator reducer of components/Calculator.tsx.                    *)
(*                                                                         *)
(* calcState is the CalculatorState record held by useState; every button  *)
(* press is one setCalcState(prevState => ...) call, modelled as one       *)
(* action that replaces calcState by the handler's return value.           *)
(*                                                                         *)
(* displayValue is a sequence of one-character strings, so that string     *)
(* concatenation, includes('.'), parseFloat and String(number) are         *)
(* computed character by character.                                        *)
(*                                                                         *)
(* A JavaScript number is a record [k, neg, m, e]:                         *)
(*    k = "fin"  the double nearest to (-1)^neg * m / 10^e (m, e minimal;  *)
(*               m = 0 with neg = TRUE is negative zero),                  *)
(*    k = "nan"  NaN,   k = "inf"  +Infinity or -Infinity (neg),           *)
(*    k = "out"  a finite double outside the numbers the model covers.     *)
(* null is its own record (k = "null").  The covered numbers are the       *)
(* decimals with a mantissa of at most MaxMant and at most MaxScale        *)
(* decimals; an operation on them is computed when both operands are held  *)
(* exactly by a double (or it is exact for every double: adding zero,      *)
(* multiplying by 1 or -1) and its exact result is covered.  The double    *)
(* result is then the double nearest to the exact result, and String of    *)
(* it is the shortest decimal, which is the exact result.  A button press  *)
(* that would produce or display a number with k = "out" is not explored   *)
(* (see Covered).                                                          *)
(*                                                                         *)
(* calcState and dimensions are the two useState cells of the component.   *)
(* Spec is the calculator under button presses alone; SpecResize adds the  *)
(* 'change' notifications of Dimensions, which may arrive between any two  *)
(* presses.                                                                *)
(*                                                                         *)
(* prevState, lastEvent, hist, errorEntered and prevResult observe the run  *)
(* and are read by no handler: the state before the last press, the button *)
(* last pressed, the buttons pressed since the identity state (see         *)
(* Record), whether a press has produced the Error state since the last    *)
(* Clear, and whether prevState was itself the finite result of an Equals. *)
(***************************************************************************)
EXTENDS Integers, Sequences, FiniteSets, TLC

VARIABLES calcState, dimensions, prevState, lastEvent, hist, errorEntered,
          prevResult

vars == <<calcState, dimensions, prevState, lastEvent, hist, errorEntered,
          prevResult>>

(* ------------------------------ bounds --------------------------------- *)

\* Digit buttons explored: "0" .. MaxDigit.
MaxDigit == 1

\* Most digits a typed displayValue may hold before a further Digit press
\* is no longer explored.
MaxTyped == 2

\* Largest mantissa m and largest number of decimals e of a covered number.
MaxMant == 10

MaxScale == 1

\* Longest event history kept since the identity state.
MaxHist == 6

(* ------------------------------ numbers -------------------------------- *)

Null == [k |-> "null", neg |-> FALSE, m |-> 0, e |-> 0]

NaN == [k |-> "nan", neg |-> FALSE, m |-> 0, e |-> 0]

Infinity == [k |-> "inf", neg |-> FALSE, m |-> 0, e |-> 0]

NegInfinity == [k |-> "inf", neg |-> TRUE, m |-> 0, e |-> 0]

OutOfModel == [k |-> "out", neg |-> FALSE, m |-> 0, e |-> 0]

RECURSIVE Pow10(_)
Pow10(n) == IF n = 0 THEN 1 ELSE 10 * Pow10(n - 1)

RECURSIVE Gcd(_, _)
Gcd(a, b) == IF b = 0 THEN a ELSE Gcd(b, a % b)

Abs(x) == IF x < 0 THEN -x ELSE x

\* m / 10^e with trailing zero decimals removed.
RECURSIVE Norm(_, _, _)
Norm(neg, m, e) ==
    IF e > 0 /\ m % 10 = 0 THEN Norm(neg, m \div 10, e - 1)
    ELSE [k |-> "fin", neg |-> neg, m |-> m, e |-> e]

\* The finite number neg, m, e if the model covers it.
Fin(neg, m, e) ==
    LET n == Norm(neg, m, e)
    IN  IF n.m <= MaxMant /\ n.e <= MaxScale THEN n ELSE OutOfModel

\* The number written by an integer literal of the source (-1, 100).
Num(i) == Norm(i < 0, Abs(i), 0)

IsZero(x) == x.k = "fin" /\ x.m = 0

\* IEEE-754 negation (the sign bit flips, also of zero and of infinities).
Negate(x) ==
    IF x.k \in {"fin", "inf"} THEN [x EXCEPT !.neg = ~x.neg] ELSE x

\* A covered finite number that a double holds exactly: m / 10^e is a
\* dyadic rational iff 5^e divides m.
RECURSIVE Pow5(_)
Pow5(n) == IF n = 0 THEN 1 ELSE 5 * Pow5(n - 1)

ExactDouble(x) == x.k = "fin" /\ x.m % Pow5(x.e) = 0

Signed(x, e) == (IF x.neg THEN -1 ELSE 1) * x.m * Pow10(e - x.e)

\* a + b in double arithmetic.
NumAdd(a, b) ==
    IF a.k = "nan" \/ b.k = "nan" THEN NaN
    ELSE IF a.k = "inf" /\ b.k = "inf" THEN (IF a.neg = b.neg THEN a ELSE NaN)
    ELSE IF a.k = "inf" THEN a
    ELSE IF b.k = "inf" THEN b
    ELSE IF a.k = "out" \/ b.k = "out" THEN OutOfModel
    ELSE IF IsZero(a) /\ IsZero(b) THEN Fin(a.neg /\ b.neg, 0, 0)
    ELSE IF IsZero(a) THEN b
    ELSE IF IsZero(b) THEN a
    ELSE IF ~(ExactDouble(a) /\ ExactDouble(b)) THEN OutOfModel
    ELSE LET e == IF a.e > b.e THEN a.e ELSE b.e
             s == Signed(a, e) + Signed(b, e)
         IN  Fin(s < 0, Abs(s), e)

\* a * b in double arithmetic.
NumMul(a, b) ==
    IF a.k = "nan" \/ b.k = "nan" THEN NaN
    ELSE IF a.k = "inf" \/ b.k = "inf" THEN
        (IF IsZero(a) \/ IsZero(b) THEN NaN
         ELSE [Infinity EXCEPT !.neg = (a.neg # b.neg)])
    ELSE IF a.k = "out" \/ b.k = "out" THEN OutOfModel
    ELSE IF IsZero(a) \/ IsZero(b) THEN Fin(a.neg # b.neg, 0, 0)
    ELSE IF a.m = 1 /\ a.e = 0 THEN [b EXCEPT !.neg = (a.neg # b.neg)]
    ELSE IF b.m = 1 /\ b.e = 0 THEN [a EXCEPT !.neg = (a.neg # b.neg)]
    ELSE IF ~(ExactDouble(a) /\ ExactDouble(b)) THEN OutOfModel
    ELSE Fin(a.neg # b.neg, a.m * b.m, a.e + b.e)

\* The least k <= limit with d dividing 10^k, or -1 when there is none.
RECURSIVE DecimalsOf(_, _, _)
DecimalsOf(d, k, limit) ==
    IF k > limit THEN -1
    ELSE IF Pow10(k) % d = 0 THEN k
    ELSE DecimalsOf(d, k + 1, limit)

\* a / b in double arithmetic (b = 0 included: IEEE division).
NumDiv(a, b) ==
    IF a.k = "nan" \/ b.k = "nan" THEN NaN
    ELSE IF a.k = "inf" THEN
        (IF b.k = "inf" THEN NaN ELSE [Infinity EXCEPT !.neg = (a.neg # b.neg)])
    ELSE IF b.k = "inf" THEN Fin(a.neg # b.neg, 0, 0)
    ELSE IF a.k = "out" \/ b.k = "out" THEN OutOfModel
    ELSE IF IsZero(b) THEN
        (IF IsZero(a) THEN NaN ELSE [Infinity EXCEPT !.neg = (a.neg # b.neg)])
    ELSE IF IsZero(a) THEN Fin(a.neg # b.neg, 0, 0)
    ELSE IF ~(ExactDouble(a) /\ ExactDouble(b)) THEN OutOfModel
    ELSE LET g  == Gcd(a.m, b.m)
             n  == a.m \div g
             d  == b.m \div g
             k  == DecimalsOf(d, 0, 2 * MaxScale)
             e  == k + a.e - b.e
         IN  IF k < 0 THEN OutOfModel
             ELSE IF e < 0 THEN Fin(a.neg # b.neg, n * (Pow10(k) \div d) * Pow10(-e), 0)
             ELSE Fin(a.neg # b.neg, n * (Pow10(k) \div d), e)

\* operand2 === 0 (true of 0 and of -0, false of NaN).
StrictEqualsZero(x) == IsZero(x)

\* Number.isFinite(result).
NumberIsFinite(x) == x.k \in {"fin", "out"}

(* ------------------------------ strings -------------------------------- *)

DigitChars == <<"0", "1", "2", "3", "4", "5", "6", "7", "8", "9">>

DigitSet == {DigitChars[i] : i \in 1..10}

IsDigitChar(c) == c \in DigitSet

DigitValue(c) == (CHOOSE i \in 1..10 : DigitChars[i] = c) - 1

ErrorText == <<"E", "r", "r", "o", "r">>

NaNText == <<"N", "a", "N">>

InfinityText == <<"I", "n", "f", "i", "n", "i", "t", "y">>

IsPrefix(p, s) == Len(p) <= Len(s) /\ SubSeq(s, 1, Len(p)) = p

\* displayValue.includes('.')
IncludesDot(s) == \E i \in 1..Len(s) : s[i] = "."

\* The decimal digits of the natural number n.
RECURSIVE NatText(_)
NatText(n) ==
    IF n < 10 THEN <<DigitChars[n + 1]>>
    ELSE NatText(n \div 10) \o <<DigitChars[(n % 10) + 1]>>

RECURSIVE Zeros(_)
Zeros(n) == IF n = 0 THEN <<>> ELSE <<"0">> \o Zeros(n - 1)

\* String(x): the platform's number-to-string conversion.  NaN is "NaN",
\* both zeros are "0", and a covered finite number lies in the range that
\* is written in plain decimal notation, without an exponent.
String(x) ==
    IF x.k = "nan" THEN NaNText
    ELSE IF x.k = "inf" THEN (IF x.neg THEN <<"-">> ELSE <<>>) \o InfinityText
    ELSE IF x.k # "fin" THEN <<"?">>
    ELSE IF x.m = 0 THEN <<"0">>
    ELSE LET whole == x.m \div Pow10(x.e)
             frac  == NatText(x.m % Pow10(x.e))
             sign  == IF x.neg THEN <<"-">> ELSE <<>>
         IN  IF x.e = 0 THEN sign \o NatText(whole)
             ELSE sign \o NatText(whole) \o <<".">>
                       \o Zeros(x.e - Len(frac)) \o frac

\* The length of the longest run of decimal digits of s that starts at i.
RECURSIVE DigitRun(_, _)
DigitRun(s, i) ==
    IF i <= Len(s) /\ IsDigitChar(s[i]) THEN 1 + DigitRun(s, i + 1) ELSE 0

\* The natural number written by the digits s[i], ..., s[j] (0 when j < i),
\* or -1 once it exceeds what the model covers.
RECURSIVE DigitsValue(_, _, _)
DigitsValue(s, i, j) ==
    IF j < i THEN 0
    ELSE LET head == DigitsValue(s, i, j - 1)
         IN  IF head < 0 \/ head > MaxMant * Pow10(MaxScale) THEN -1
             ELSE 10 * head + DigitValue(s[j])

\* parseFloat(s): the number written by the longest prefix of s that is a
\* decimal literal (sign, digits, '.', digits), Infinity for a prefix
\* "Infinity", NaN when there is no such prefix.  No reachable displayValue
\* has a digit followed by an exponent part.
parseFloat(s) ==
    LET neg    == Len(s) >= 1 /\ s[1] = "-"
        start  == IF Len(s) >= 1 /\ s[1] \in {"-", "+"} THEN 2 ELSE 1
        nInt   == DigitRun(s, start)
        dot    == start + nInt
        hasDot == dot <= Len(s) /\ s[dot] = "."
        nFrac  == IF hasDot THEN DigitRun(s, dot + 1) ELSE 0
        mInt   == DigitsValue(s, start, start + nInt - 1)
        mFrac  == DigitsValue(s, dot + 1, dot + nFrac)
        mAll   == IF mInt < 0 \/ mFrac < 0 THEN -1
                  ELSE mInt * Pow10(nFrac) + mFrac
    IN  IF IsPrefix(InfinityText, SubSeq(s, start, Len(s)))
            THEN (IF neg THEN NegInfinity ELSE Infinity)
        ELSE IF nInt + nFrac = 0 THEN NaN
        ELSE IF mAll < 0 \/ nFrac > 2 * MaxScale THEN OutOfModel
        ELSE Fin(neg, mAll, nFrac)

(* ------------------------------- state --------------------------------- *)

\* operator: null
NoOperator == "null"

Operators == {"+", "-", "*", "/"}

\* The digit buttons explored.
Digits == {DigitChars[i] : i \in 1..(MaxDigit + 1)}

\* The useState initial value: the identity state.
InitialState ==
    [displayValue            |-> <<"0">>,
     operator                |-> NoOperator,
     firstOperand            |-> Null,
     waitingForSecondOperand |-> FALSE,
     activeOperator          |-> NoOperator]

\* The object literal both non-finite branches return.
ErrorState ==
    [displayValue            |-> ErrorText,
     operator                |-> NoOperator,
     firstOperand            |-> Null,
     waitingForSecondOperand |-> FALSE,
     activeOperator          |-> NoOperator]

(* ------------------------------ handlers ------------------------------- *)

performOperation(operator, operand1, operand2) ==
    CASE operator = "+" -> NumAdd(operand1, operand2)
      [] operator = "-" -> NumAdd(operand1, Negate(operand2))
      [] operator = "*" -> NumMul(operand1, operand2)
      [] operator = "/" -> IF StrictEqualsZero(operand2) THEN Infinity
                           ELSE NumDiv(operand1, operand2)
      [] OTHER          -> operand2

\* handleDigit without the displayValue === '0' test: a leading zero stays.
handleDigit_keepsLeadingZero(prev, digit) ==
    [prev EXCEPT
        !.displayValue =
            IF prev.waitingForSecondOperand
            THEN <<digit>>
            ELSE prev.displayValue \o <<digit>>,
        !.waitingForSecondOperand = FALSE,
        !.activeOperator = NoOperator]

\* handleDigit that leaves the operator highlighted.
handleDigit_keepsActive(prev, digit) ==
    [prev EXCEPT
        !.displayValue =
            IF prev.waitingForSecondOperand \/ prev.displayValue = <<"0">>
            THEN <<digit>>
            ELSE prev.displayValue \o <<digit>>,
        !.waitingForSecondOperand = FALSE]

\* handleDigit that also starts a fresh number when "Error" is displayed.
handleDigit_replacesError(prev, digit) ==
    [prev EXCEPT
        !.displayValue =
            IF \/ prev.waitingForSecondOperand
               \/ prev.displayValue = <<"0">>
               \/ prev.displayValue = ErrorText
            THEN <<digit>>
            ELSE prev.displayValue \o <<digit>>,
        !.waitingForSecondOperand = FALSE,
        !.activeOperator = NoOperator]

handleDigit(prev, digit) ==
    [prev EXCEPT
        !.displayValue =
            IF prev.waitingForSecondOperand \/ prev.displayValue = <<"0">>
            THEN <<digit>>
            ELSE prev.displayValue \o <<digit>>,
        !.waitingForSecondOperand = FALSE,
        !.activeOperator = NoOperator]

\* handleOperator that replaces a pending operator instead of evaluating it.
handleOperator_replacesPending(prev, nextOperator) ==
    LET inputValue == parseFloat(prev.displayValue)
    IN  IF prev.activeOperator = nextOperator /\ prev.waitingForSecondOperand
            THEN prev
        ELSE IF prev.firstOperand = Null
            THEN [prev EXCEPT !.firstOperand = inputValue,
                              !.operator = nextOperator,
                              !.waitingForSecondOperand = TRUE,
                              !.activeOperator = nextOperator]
        ELSE [prev EXCEPT !.operator = nextOperator,
                          !.waitingForSecondOperand = TRUE,
                          !.activeOperator = nextOperator]

\* handleOperator whose chaining branch highlights the new operator but
\* keeps the operator it has just evaluated.
handleOperator_keepsOperator(prev, nextOperator) ==
    LET inputValue == parseFloat(prev.displayValue)
        result     == performOperation(prev.operator, prev.firstOperand, inputValue)
    IN  IF prev.activeOperator = nextOperator /\ prev.waitingForSecondOperand
            THEN prev
        ELSE IF prev.firstOperand = Null
            THEN [prev EXCEPT !.firstOperand = inputValue,
                              !.operator = nextOperator,
                              !.waitingForSecondOperand = TRUE,
                              !.activeOperator = nextOperator]
        ELSE IF prev.operator # NoOperator
            THEN IF ~NumberIsFinite(result)
                 THEN ErrorState
                 ELSE [prev EXCEPT !.displayValue = String(result),
                                   !.firstOperand = result,
                                   !.waitingForSecondOperand = TRUE,
                                   !.activeOperator = nextOperator]
        ELSE prev

\* handleOperator without the early return for a repeated operator.
handleOperator_noSuppression(prev, nextOperator) ==
    LET inputValue == parseFloat(prev.displayValue)
        result     == performOperation(prev.operator, prev.firstOperand, inputValue)
    IN  IF prev.firstOperand = Null
            THEN [prev EXCEPT !.firstOperand = inputValue,
                              !.operator = nextOperator,
                              !.waitingForSecondOperand = TRUE,
                              !.activeOperator = nextOperator]
        ELSE IF prev.operator # NoOperator
            THEN IF ~NumberIsFinite(result)
                 THEN ErrorState
                 ELSE [prev EXCEPT !.displayValue = String(result),
                                   !.firstOperand = result,
                                   !.operator = nextOperator,
                                   !.waitingForSecondOperand = TRUE,
                                   !.activeOperator = nextOperator]
        ELSE prev

handleOperator(prev, nextOperator) ==
    LET inputValue == parseFloat(prev.displayValue)
        result     == performOperation(prev.operator, prev.firstOperand, inputValue)
    IN  IF prev.activeOperator = nextOperator /\ prev.waitingForSecondOperand
            THEN prev
        ELSE IF prev.firstOperand = Null
            THEN [prev EXCEPT !.firstOperand = inputValue,
                              !.operator = nextOperator,
                              !.waitingForSecondOperand = TRUE,
                              !.activeOperator = nextOperator]
        ELSE IF prev.operator # NoOperator
            THEN IF ~NumberIsFinite(result)
                 THEN ErrorState
                 ELSE [prev EXCEPT !.displayValue = String(result),
                                   !.firstOperand = result,
                                   !.operator = nextOperator,
                                   !.waitingForSecondOperand = TRUE,
                                   !.activeOperator = nextOperator]
        ELSE prev

\* handleDecimal whose "0." branch leaves the operator highlighted.
handleDecimal_keepsActive(prev) ==
    IF prev.waitingForSecondOperand
        THEN [prev EXCEPT !.displayValue = <<"0", ".">>,
                          !.waitingForSecondOperand = FALSE]
    ELSE IF ~IncludesDot(prev.displayValue)
        THEN [prev EXCEPT !.displayValue = prev.displayValue \o <<".">>,
                          !.activeOperator = NoOperator]
    ELSE prev

\* handleDecimal without the includes('.') test.
handleDecimal_alwaysAppends(prev) ==
    IF prev.waitingForSecondOperand
        THEN [prev EXCEPT !.displayValue = <<"0", ".">>,
                          !.waitingForSecondOperand = FALSE,
                          !.activeOperator = NoOperator]
    ELSE [prev EXCEPT !.displayValue = prev.displayValue \o <<".">>,
                      !.activeOperator = NoOperator]

handleDecimal(prev) ==
    IF prev.waitingForSecondOperand
        THEN [prev EXCEPT !.displayValue = <<"0", ".">>,
                          !.waitingForSecondOperand = FALSE,
                          !.activeOperator = NoOperator]
    ELSE IF ~IncludesDot(prev.displayValue)
        THEN [prev EXCEPT !.displayValue = prev.displayValue \o <<".">>,
                          !.activeOperator = NoOperator]
    ELSE prev

\* handleClear that leaves the waiting flag set.
handleClear_keepsWaiting ==
    [displayValue            |-> <<"0">>,
     operator                |-> NoOperator,
     firstOperand            |-> Null,
     waitingForSecondOperand |-> TRUE,
     activeOperator          |-> NoOperator]

handleClear ==
    [displayValue            |-> <<"0">>,
     operator                |-> NoOperator,
     firstOperand            |-> Null,
     waitingForSecondOperand |-> FALSE,
     activeOperator          |-> NoOperator]

\* handleEquals without the Number.isFinite test.
handleEquals_noFiniteCheck(prev) ==
    LET secondOperand == parseFloat(prev.displayValue)
        result == performOperation(prev.operator, prev.firstOperand, secondOperand)
    IN  IF prev.firstOperand = Null \/ prev.operator = NoOperator
            THEN [prev EXCEPT !.activeOperator = NoOperator]
        ELSE [displayValue            |-> String(result),
              operator                |-> NoOperator,
              firstOperand            |-> Null,
              waitingForSecondOperand |-> FALSE,
              activeOperator          |-> NoOperator]

\* handleEquals that keeps its result as firstOperand, as chaining does.
handleEquals_keepsOperand(prev) ==
    LET secondOperand == parseFloat(prev.displayValue)
        result == performOperation(prev.operator, prev.firstOperand, secondOperand)
    IN  IF prev.firstOperand = Null \/ prev.operator = NoOperator
            THEN [prev EXCEPT !.activeOperator = NoOperator]
        ELSE IF ~NumberIsFinite(result)
            THEN ErrorState
        ELSE [displayValue            |-> String(result),
              operator                |-> NoOperator,
              firstOperand            |-> result,
              waitingForSecondOperand |-> FALSE,
              activeOperator          |-> NoOperator]

\* handleEquals without the early return: with nothing pending it shows
\* String(parseFloat(displayValue)), the default case of performOperation.
handleEquals_alwaysComputes(prev) ==
    LET secondOperand == parseFloat(prev.displayValue)
        result == performOperation(prev.operator, prev.firstOperand, secondOperand)
    IN  IF ~NumberIsFinite(result)
            THEN ErrorState
        ELSE [displayValue            |-> String(result),
              operator                |-> NoOperator,
              firstOperand            |-> Null,
              waitingForSecondOperand |-> FALSE,
              activeOperator          |-> NoOperator]

\* handleEquals after whose result the next digit starts a new number.
handleEquals_awaitsNewNumber(prev) ==
    LET secondOperand == parseFloat(prev.displayValue)
        result == performOperation(prev.operator, prev.firstOperand, secondOperand)
    IN  IF prev.firstOperand = Null \/ prev.operator = NoOperator
            THEN [prev EXCEPT !.activeOperator = NoOperator]
        ELSE IF ~NumberIsFinite(result)
            THEN ErrorState
        ELSE [displayValue            |-> String(result),
              operator                |-> NoOperator,
              firstOperand            |-> Null,
              waitingForSecondOperand |-> TRUE,
              activeOperator          |-> NoOperator]

\* handleEquals whose result spreads prevState and forgets the waiting flag.
handleEquals_keepsWaiting(prev) ==
    LET secondOperand == parseFloat(prev.displayValue)
        result == performOperation(prev.operator, prev.firstOperand, secondOperand)
    IN  IF prev.firstOperand = Null \/ prev.operator = NoOperator
            THEN [prev EXCEPT !.activeOperator = NoOperator]
        ELSE IF ~NumberIsFinite(result)
            THEN ErrorState
        ELSE [prev EXCEPT !.displayValue = String(result),
                          !.operator = NoOperator,
                          !.firstOperand = Null,
                          !.activeOperator = NoOperator]

handleEquals(prev) ==
    LET secondOperand == parseFloat(prev.displayValue)
        result == performOperation(prev.operator, prev.firstOperand, secondOperand)
    IN  IF prev.firstOperand = Null \/ prev.operator = NoOperator
            THEN [prev EXCEPT !.activeOperator = NoOperator]
        ELSE IF ~NumberIsFinite(result)
            THEN ErrorState
        ELSE [displayValue            |-> String(result),
              operator                |-> NoOperator,
              firstOperand            |-> Null,
              waitingForSecondOperand |-> FALSE,
              activeOperator          |-> NoOperator]

\* A "+/-" that always makes the value negative.
toggleSign_alwaysNegative(prev) ==
    LET x == parseFloat(prev.displayValue)
    IN  [prev EXCEPT !.displayValue =
            String(IF x.k = "fin" /\ x.neg THEN x ELSE NumMul(x, Num(-1)))]

\* The "+/-" button's onPress.
toggleSign(prev) ==
    [prev EXCEPT !.displayValue =
        String(NumMul(parseFloat(prev.displayValue), Num(-1)))]

\* A "%" that ends the wait for the second operand, as a digit does.
percent_clearsWaiting(prev) ==
    [prev EXCEPT !.displayValue =
                    String(NumDiv(parseFloat(prev.displayValue), Num(100))),
                 !.waitingForSecondOperand = FALSE]

\* The "%" button's onPress.
percent(prev) ==
    [prev EXCEPT !.displayValue =
        String(NumDiv(parseFloat(prev.displayValue), Num(100)))]

(* ------------------------------- history ------------------------------- *)

\* hist is the sequence of buttons pressed since the identity state, kept
\* while it is a run of digits or a chain  digit (operator digit)* [operator]
\* that may end with "=", and Untracked otherwise.
Untracked == <<"untracked">>

AllDigits(h) == \A i \in 1..Len(h) : IsDigitChar(h[i])

IsChain(h) ==
    /\ Len(h) >= 1
    /\ \A i \in 1..Len(h) :
          IF i % 2 = 1 THEN IsDigitChar(h[i])
          ELSE \/ h[i] \in Operators
               \/ h[i] = "=" /\ i = Len(h) /\ i >= 4

Record(h, event) ==
    IF h # Untracked /\ Len(h) < MaxHist
       /\ (AllDigits(Append(h, event)) \/ IsChain(Append(h, event)))
    THEN Append(h, event)
    ELSE Untracked

(* ------------------------------- actions ------------------------------- *)

\* s is a decimal literal: sign? digit+ ('.' digit*)?
IsNumericLiteral(s) ==
    LET start == IF Len(s) >= 1 /\ s[1] = "-" THEN 2 ELSE 1
        nInt  == DigitRun(s, start)
        dot   == start + nInt
    IN  /\ nInt >= 1
        /\ \/ dot = Len(s) + 1
           \/ s[dot] = "." /\ dot + DigitRun(s, dot + 1) = Len(s)

DigitCount(s) == Cardinality({i \in 1..Len(s) : IsDigitChar(s[i])})

\* A Digit press is explored while it replaces displayValue, or appends to a
\* number of fewer than MaxTyped digits, or appends to a text that is no
\* number ("Error", "NaN", ...) and holds fewer than MaxTyped - 1 digits.
DigitExplored(s) ==
    \/ s.waitingForSecondOperand
    \/ s.displayValue = <<"0">>
    \/ DigitCount(s.displayValue) <
          (IF IsNumericLiteral(s.displayValue) THEN MaxTyped ELSE MaxTyped - 1)

\* The numbers of state s are numbers the model covers: firstOperand, the
\* number String has written, and the number displayValue parses to.
Covered(s) ==
    /\ s.firstOperand.k # "out"
    /\ s.displayValue # <<"?">>
    /\ parseFloat(s.displayValue).k # "out"

\* The windows Dimensions reports: one taller than wide, one wider than tall.
Portrait == [width |-> 1, height |-> 2]

Landscape == [width |-> 2, height |-> 1]

Windows == {Portrait, Landscape}

isLandscape(d) == d.width > d.height

\* A listener that also puts the calculator back to its initial state.
onChange_resetsCalculator(component, window) ==
    [calcState |-> InitialState, dimensions |-> window]

\* The 'change' listener: setDimensions(window).  component is the state of
\* the component, its two useState cells.
onChange(component, window) == [component EXCEPT !.dimensions = window]

\* The last press was Equals with an operation pending, and the operation's
\* result is finite: calcState is what handleEquals returns for a result.
ProducedResult ==
    /\ lastEvent = "="
    /\ prevState.firstOperand # Null
    /\ prevState.operator # NoOperator
    /\ NumberIsFinite(performOperation(prevState.operator,
                                       prevState.firstOperand,
                                       parseFloat(prevState.displayValue)))

Init ==
    /\ calcState = InitialState
    /\ dimensions = Portrait
    /\ prevState = InitialState
    /\ lastEvent = "init"
    /\ hist = <<>>
    /\ errorEntered = FALSE
    /\ prevResult = FALSE

Press(event, next) ==
    /\ Covered(next)
    /\ calcState' = next
    /\ dimensions' = dimensions
    /\ prevState' = calcState
    /\ lastEvent' = event
    /\ hist' = IF event = "AC" THEN <<>> ELSE Record(hist, event)
    /\ errorEntered' = IF event = "AC" THEN FALSE
                       ELSE errorEntered \/ next = ErrorState
    /\ prevResult' = ProducedResult

Digit ==
    \E d \in Digits :
        /\ DigitExplored(calcState)
        /\ Press(d, handleDigit(calcState, d))

Operator ==
    \E op \in Operators : Press(op, handleOperator(calcState, op))

Decimal == Press(".", handleDecimal(calcState))

Clear == Press("AC", handleClear)

Equals == Press("=", handleEquals(calcState))

ToggleSign == Press("+/-", toggleSign(calcState))

Percent == Press("%", percent(calcState))

Next ==
    \/ Digit
    \/ Operator
    \/ Decimal
    \/ Clear
    \/ Equals
    \/ ToggleSign
    \/ Percent

Spec == Init /\ [][Next]_vars

\* A 'change' notification of Dimensions is delivered.
DimensionsChange ==
    \E window \in Windows \ {dimensions} :
        LET component == onChange([calcState |-> calcState,
                                   dimensions |-> dimensions], window)
        IN  /\ calcState' = component.calcState
            /\ dimensions' = component.dimensions
            /\ UNCHANGED <<prevState, lastEvent, hist, errorEntered,
                           prevResult>>

NextResize == Next \/ DimensionsChange

SpecResize == Init /\ [][NextResize]_vars

(* ------------------------------- claims -------------------------------- *)

\* The value of the chain h[1] h[2] ... h[n] (n odd) computed strictly left
\* to right: apply(h[n-1], value of h[1..n-2], h[n]).
RECURSIVE ChainValue(_, _)
ChainValue(h, n) ==
    IF n = 1 THEN parseFloat(<<h[1]>>)
    ELSE performOperation(h[n - 1], ChainValue(h, n - 2), parseFloat(<<h[n]>>))

\* hist is  Digit (Operator Digit)+ Equals.
ChainDone ==
    /\ hist # Untracked
    /\ IsChain(hist)
    /\ Len(hist) >= 4
    /\ hist[Len(hist)] = "="

\* The odd positions 3, 5, ... of the chain: where an apply result exists.
ResultAt(n) == n % 2 = 1 /\ n >= 3 /\ n <= Len(hist) - 1

\* C1 as stated: a chain from the identity state, ended by Equals, shows the
\* text of its left-to-right value whenever every result before the last
\* apply is finite.
C1_AsStated ==
    (ChainDone /\ \A n \in 1..Len(hist) :
                    (ResultAt(n) /\ n < Len(hist) - 1)
                        => NumberIsFinite(ChainValue(hist, n)))
        => calcState.displayValue = String(ChainValue(hist, Len(hist) - 1))

\* C1 (amended): a chain from the identity state, ended by Equals, shows the
\* text of its strictly left-to-right value whenever every apply result,
\* the last one included, is finite.
C1_LeftToRight ==
    (ChainDone /\ \A n \in 1..Len(hist) :
                    ResultAt(n) => NumberIsFinite(ChainValue(hist, n)))
        => calcState.displayValue = String(ChainValue(hist, Len(hist) - 1))

\* 1 + 1 * 0 = shows 0, which is (1 + 1) * 0 and not 1 + (1 * 0).
C1_Witness ==
    /\ hist = <<"1", "+", "1", "*", "0", "=">>
    /\ calcState.displayValue = <<"0">>

\* operator = '/' with firstOperand present and a displayValue that parses
\* to 0.
DividesByZero(s) ==
    /\ s.operator = "/"
    /\ s.firstOperand # Null
    /\ IsZero(parseFloat(s.displayValue))

Suppressed(s, op) == s.activeOperator = op /\ s.waitingForSecondOperand

\* C2: Equals, and an Operator press that is not suppressed, pressed where a
\* division by zero is pending, leave exactly the Error state.
C2_DivisionByZero ==
    (/\ DividesByZero(prevState)
     /\ \/ lastEvent = "="
        \/ lastEvent \in Operators /\ ~Suppressed(prevState, lastEvent))
        => /\ calcState.displayValue = ErrorText
           /\ calcState.operator = NoOperator
           /\ calcState.firstOperand = Null
           /\ ~calcState.waitingForSecondOperand
           /\ calcState.activeOperator = NoOperator

C2_Witness ==
    /\ lastEvent = "="
    /\ DividesByZero(prevState)
    /\ prevState.firstOperand = Num(1)
    /\ calcState.displayValue = ErrorText

\* The digits h with leading zeros suppressed; "0" when there is nothing
\* else.
RECURSIVE Concatenated(_)
Concatenated(h) ==
    IF Len(h) = 0 THEN <<"0">>
    ELSE IF Len(h) > 1 /\ h[1] = "0" THEN Concatenated(Tail(h))
    ELSE h

\* C3: after Clear (or construction) and digits only, displayValue is the
\* concatenation of the digits pressed, leading zeros suppressed.
C3_DigitsConcatenate ==
    (hist # Untracked /\ AllDigits(hist))
        => calcState.displayValue = Concatenated(hist)

C3_Witness ==
    /\ lastEvent = "0"
    /\ hist = <<"0", "0", "1", "0">>
    /\ calcState.displayValue = <<"1", "0">>

\* C4: Clear leaves exactly the identity state, whatever the state before.
C4_ClearIsIdentity ==
    lastEvent = "AC" => calcState = InitialState

C4_Witness ==
    /\ lastEvent = "AC"
    /\ prevState.displayValue = ErrorText
    /\ calcState = InitialState

\* C5: pressing the operator that is already active, while the second
\* operand is awaited, returns the state unchanged.
C5_RedundantOperator ==
    (lastEvent \in Operators /\ Suppressed(prevState, lastEvent))
        => calcState = prevState

C5_Witness ==
    /\ lastEvent = "+"
    /\ Suppressed(prevState, "+")
    /\ prevState.firstOperand = Num(1)
    /\ calcState = prevState

DotCount(s) == Cardinality({i \in 1..Len(s) : s[i] = "."})

\* C6: the state after a Decimal press is left unchanged by a second
\* Decimal press, and its displayValue has exactly one decimal point.
C6_DecimalIdempotent ==
    lastEvent = "."
        => /\ handleDecimal(calcState) = calcState
           /\ DotCount(calcState.displayValue) = 1

\* Decimal pressed on a number that Decimal has just ended with a point.
C6_Witness ==
    /\ lastEvent = "."
    /\ prevState.displayValue = <<"1", ".">>
    /\ calcState = prevState

\* C7: two ToggleSign presses give back a displayValue that parses to the
\* value the original displayValue parses to (NaN for a displayValue that is
\* no number, before and after), with every other field unchanged.
C7_ToggleSignTwice ==
    LET once  == toggleSign(calcState)
        twice == toggleSign(once)
    IN  Covered(once)
            => /\ parseFloat(twice.displayValue) = parseFloat(calcState.displayValue)
               /\ twice = [calcState EXCEPT !.displayValue = twice.displayValue]

\* The second of two ToggleSign presses, on a pending operation.
C7_Witness ==
    /\ lastEvent = "+/-"
    /\ prevState.displayValue = <<"-", "1", "0">>
    /\ calcState.displayValue = <<"1", "0">>
    /\ calcState.operator = "*"

\* C8: whenever "Error" is displayed, operator and firstOperand are absent
\* and waitingForSecondOperand is false.
C8_ErrorClearsPending ==
    calcState.displayValue = ErrorText
        => /\ calcState.operator = NoOperator
           /\ calcState.firstOperand = Null
           /\ ~calcState.waitingForSecondOperand

\* C9: displayValue is never empty and is a numeric literal or "Error".
C9_DisplayIsNumberOrError ==
    /\ calcState.displayValue # <<>>
    /\ \/ IsNumericLiteral(calcState.displayValue)
       \/ calcState.displayValue = ErrorText

\* C10: while the second operand is awaited, operator and firstOperand are
\* both present.
C10_WaitingHasPending ==
    calcState.waitingForSecondOperand
        => calcState.operator # NoOperator /\ calcState.firstOperand # Null

\* Equals has resolved an operation and a new operator has been chosen.
C10_Witness ==
    /\ lastEvent \in Operators
    /\ calcState.waitingForSecondOperand
    /\ calcState.operator = lastEvent
    /\ calcState.firstOperand = Num(2)
    /\ prevState.operator = NoOperator

\* C11: an activeOperator that is present equals operator.
C11_ActiveIsOperator ==
    calcState.activeOperator # NoOperator
        => calcState.activeOperator = calcState.operator

\* A chained operator press has replaced the highlighted operator.
C11_Witness ==
    /\ lastEvent = "*"
    /\ prevState.operator = "+"
    /\ prevState.firstOperand # Null
    /\ calcState.activeOperator = "*"
    /\ calcState.operator = "*"

\* A displayValue that is a number, with no NaN held as firstOperand.
Recovered(s) ==
    /\ IsNumericLiteral(s.displayValue)
    /\ s.firstOperand = Null \/ NumberIsFinite(s.firstOperand)

\* C12: once a press has produced the Error state, no press other than
\* Clear leads to a state whose displayValue is a numeric literal and whose
\* firstOperand is absent or finite.
C12_OnlyClearRecovers ==
    errorEntered => ~Recovered(calcState)

\* After the Error state, an operator and a digit: a number is displayed
\* again, and the NaN parsed from "Error" is the firstOperand.
C12_Witness ==
    /\ errorEntered
    /\ calcState.displayValue = <<"1">>
    /\ calcState.firstOperand = NaN
    /\ calcState.operator = "+"

\* C13: a digit pressed in the Error state ("Error" displayed, no operator,
\* no firstOperand) starts a fresh number: displayValue is that digit.
C13_DigitStartsFreshNumber ==
    (/\ lastEvent \in Digits
     /\ prevState.displayValue = ErrorText
     /\ prevState.operator = NoOperator
     /\ prevState.firstOperand = Null)
        => calcState.displayValue = <<lastEvent>>

\* C14: after Equals nothing is pending (no operator, no firstOperand, no
\* activeOperator, not waiting), so a second Equals changes nothing.
C14_EqualsResolves ==
    lastEvent = "="
        => /\ calcState.operator = NoOperator
           /\ calcState.firstOperand = Null
           /\ calcState.activeOperator = NoOperator
           /\ ~calcState.waitingForSecondOperand
           /\ handleEquals(calcState) = calcState

\* Equals pressed on the result 1 + 1 = 2 that Equals has left.
C14_Witness ==
    /\ lastEvent = "="
    /\ prevState.displayValue = <<"2">>
    /\ prevState.operator = NoOperator
    /\ calcState = prevState

\* C15: with an operator pending and the second operand awaited, pressing
\* another operator than the active one evaluates the pending operator on
\* firstOperand and the number displayed and, when the result is finite,
\* shows it, keeps it as firstOperand and makes the new operator pending and
\* active.
C15_ChangedOperatorEvaluates ==
    LET result == performOperation(prevState.operator, prevState.firstOperand,
                                   parseFloat(prevState.displayValue))
    IN  (/\ lastEvent \in Operators
         /\ prevState.waitingForSecondOperand
         /\ prevState.operator # NoOperator
         /\ lastEvent # prevState.activeOperator
         /\ NumberIsFinite(result))
            => calcState = [displayValue            |-> String(result),
                            operator                |-> lastEvent,
                            firstOperand            |-> result,
                            waitingForSecondOperand |-> TRUE,
                            activeOperator          |-> lastEvent]

\* 1 + * shows 2.
C15_Witness ==
    /\ lastEvent = "*"
    /\ prevState.waitingForSecondOperand
    /\ prevState.activeOperator = "+"
    /\ prevState.firstOperand = Num(1)
    /\ prevState.displayValue = <<"1">>
    /\ calcState.displayValue = <<"2">>
    /\ calcState.firstOperand = Num(2)

\* C16 as stated: after an operator press activeOperator is that operator;
\* after a digit, decimal or equals press it is absent.
C16_AsStated ==
    /\ lastEvent \in Operators => calcState.activeOperator = lastEvent
    /\ lastEvent \in Digits \cup {".", "="}
          => calcState.activeOperator = NoOperator

\* The operator press op evaluates the pending operation of s to a
\* non-finite result.
ChainsToError(s, op) ==
    /\ ~Suppressed(s, op)
    /\ s.firstOperand # Null
    /\ s.operator # NoOperator
    /\ ~NumberIsFinite(performOperation(s.operator, s.firstOperand,
                                        parseFloat(s.displayValue)))

\* C16 (amended): after an operator press activeOperator is that operator,
\* unless the press evaluated the pending operation to a non-finite result
\* (the Error state), and then it is absent; after a digit, decimal or
\* equals press it is absent.
C16_ActiveTracksInput ==
    /\ lastEvent \in Operators
          => calcState.activeOperator =
                IF ChainsToError(prevState, lastEvent) THEN NoOperator
                ELSE lastEvent
    /\ lastEvent \in Digits \cup {".", "="}
          => calcState.activeOperator = NoOperator

\* 1 / 0 followed by an operator: the press leaves nothing highlighted.
C16_Witness ==
    /\ lastEvent = "*"
    /\ prevState.firstOperand = Num(1)
    /\ ChainsToError(prevState, "*")
    /\ calcState.activeOperator = NoOperator

\* C17: ToggleSign and Percent change displayValue only; pressed while the
\* second operand is awaited they leave the flag set, so the next digit
\* replaces the value they have shown.
C17_SignAndPercentFrame ==
    lastEvent \in {"+/-", "%"}
        => /\ calcState = [prevState EXCEPT !.displayValue = calcState.displayValue]
           /\ prevState.waitingForSecondOperand
                 => \A d \in Digits :
                       handleDigit(calcState, d).displayValue = <<d>>

\* Percent pressed right after an operator: 10 becomes 0.1 and the second
\* operand is still awaited.
C17_Witness ==
    /\ lastEvent = "%"
    /\ prevState.waitingForSecondOperand
    /\ prevState.displayValue = <<"1", "0">>
    /\ calcState.displayValue = <<"0", ".", "1">>
    /\ calcState.waitingForSecondOperand
    /\ calcState.activeOperator = calcState.operator

\* C18: Equals pressed with firstOperand or operator absent computes
\* nothing: it changes no field except activeOperator, which it clears.
C18_EqualsWithoutPending ==
    (/\ lastEvent = "="
     /\ prevState.firstOperand = Null \/ prevState.operator = NoOperator)
        => calcState = [prevState EXCEPT !.activeOperator = NoOperator]

\* Equals pressed on a typed "1.", which stays as typed.
C18_Witness ==
    /\ lastEvent = "="
    /\ prevState.firstOperand = Null
    /\ prevState.displayValue = <<"1", ".">>
    /\ calcState.displayValue = <<"1", ".">>

\* The condition under which handleOperator reaches its final
\* `return prevState`: no early return, a firstOperand, and no operator.
FallsThrough(s, op) ==
    /\ ~Suppressed(s, op)
    /\ s.firstOperand # Null
    /\ s.operator = NoOperator

\* C20: firstOperand is present exactly when operator is present, and no
\* operator press has reached the final `return prevState` of handleOperator.
C20_OperandIffOperator ==
    /\ (calcState.firstOperand = Null) <=> (calcState.operator = NoOperator)
    /\ lastEvent \in Operators => ~FallsThrough(prevState, lastEvent)

\* An operator pressed with a firstOperand present, after the early return:
\* the chaining branch has evaluated the pending operator.
C20_Witness ==
    /\ lastEvent \in Operators
    /\ ~Suppressed(prevState, lastEvent)
    /\ prevState.firstOperand = Num(1)
    /\ prevState.operator = "+"
    /\ calcState.firstOperand = Num(2)
    /\ calcState.operator = lastEvent

\* The state the handlers compute from the initial state for the presses h
\* (digits, operators and "="), no notification arriving in between.
RECURSIVE PressesAlone(_)
PressesAlone(h) ==
    IF h = <<>> THEN InitialState
    ELSE LET s == PressesAlone(SubSeq(h, 1, Len(h) - 1))
             e == h[Len(h)]
         IN  IF e \in Operators THEN handleOperator(s, e)
             ELSE IF e = "=" THEN handleEquals(s)
             ELSE handleDigit(s, e)

\* A step that changes dimensions leaves every field of calcState unchanged.
ResizeKeepsCalcState ==
    [][dimensions' # dimensions => calcState' = calcState]_vars

\* C19: however 'change' notifications interleave with presses, a
\* notification leaves every field of calcState unchanged, and calcState after
\* a recorded sequence of presses is the state those presses alone produce.
C19_ResizeNeverTouchesState ==
    /\ ResizeKeepsCalcState
    /\ [](hist # Untracked => calcState = PressesAlone(hist))

\* The window has turned to landscape in the course of 1 + 1 =, which shows 2.
C19_Witness ==
    /\ isLandscape(dimensions)
    /\ hist = <<"1", "+", "1", "=">>
    /\ calcState.displayValue = <<"2">>

\* C21: activeOperator is present exactly when waitingForSecondOperand is
\* true, so for every operator the early return of handleOperator, which
\* tests activeOperator, is taken exactly when the same test on operator holds.
C21_ActiveIffWaiting ==
    /\ (calcState.activeOperator # NoOperator)
          <=> calcState.waitingForSecondOperand
    /\ \A op \in Operators :
          Suppressed(calcState, op)
             <=> (calcState.operator = op /\ calcState.waitingForSecondOperand)

\* Decimal pressed while "+" was highlighted and the second operand awaited:
\* "0." is displayed, nothing is highlighted and nothing is awaited.
C21_Witness ==
    /\ lastEvent = "."
    /\ prevState.activeOperator = "+"
    /\ prevState.waitingForSecondOperand
    /\ calcState.displayValue = <<"0", ".">>
    /\ calcState.activeOperator = NoOperator
    /\ ~calcState.waitingForSecondOperand

\* C22: a finite result r of Equals is displayed as String(r), and a digit
\* pressed next, when that text is not "0", is appended to it: displayValue
\* is the text of r followed by the digit, and no operator and no
\* firstOperand is pending.
C22_DigitAppendsToResult ==
    /\ ProducedResult
          => calcState.displayValue =
                String(performOperation(prevState.operator,
                                        prevState.firstOperand,
                                        parseFloat(prevState.displayValue)))
    /\ (/\ lastEvent \in Digits
        /\ prevResult
        /\ prevState.displayValue # <<"0">>)
          => /\ calcState.displayValue = prevState.displayValue \o <<lastEvent>>
             /\ calcState.operator = NoOperator
             /\ calcState.firstOperand = Null

\* Equals has produced 1, and the digit 0 pressed next has made it "10".
C22_Witness ==
    /\ lastEvent = "0"
    /\ prevResult
    /\ prevState.displayValue = <<"1">>
    /\ calcState.displayValue = <<"1", "0">>

====
